---- MODULE Spec2Model ----
(***************************************************************************)
(* Model of the event-sourced aggregate runtime of esdf:                   *)
(*   src/EventSourcedAggregate.js            the aggregate core engine     *)
(*   src/abandoned/Persistence/AggregateLoader.js   the rehydration loader *)
(* The event sink and the command-deduplication wrapper are collaborators  *)
(* whose code is not part of src/; they are modelled from spec.md.         *)
(***************************************************************************)
EXTENDS Naturals, Sequences, FiniteSets, TLC

\* ------------------------------------------------------------------ bounds
\* Most command invocations over all instances in one behaviour.
MaxCommands == 2
\* Most commit() calls over all instances in one behaviour.
MaxCommits == 2

\* Most stage providers a loader is configured with.
MaxStages == 3
\* Most saveSnapshot() calls on aggregates in one behaviour.
MaxSnapshotCalls == 2
\* Most direct saveSnapshot/loadSnapshot calls on the snapshotter in one behaviour.
MaxSnapshotterCalls == 3

\* Two in-memory instances of the same aggregate (two competing writers).
Instances == {"i1", "i2"}
\* The aggregate id both instances were given by the loader
\* (AggregateLoader.js:37, setAggregateID chained to the constructor).
LoadedAggregateID == "agg1"
\* Another aggregate's id.
OtherAggregateID == "agg2"
AggregateIDs == {LoadedAggregateID, OtherAggregateID}
\* Event types: "A" has a handler (onA) on the aggregate type, "X" has none.
HandledTypes == {"A"}
EventTypes == {"A", "X"}
\* The command invocations tried: the command id (carried by the event the command
\* stages) and the type of that event.
CommandInputs == {<<"c1", "A">>, <<"c2", "A">>, <<"c1", "X">>}

VARIABLES
    aggregateID,         \* this._aggregateID of each instance
    nextSequenceNumber,  \* this._nextSequenceNumber
    stagedEvents,        \* this._stagedEvents
    state,               \* observable state: the handler calls made so far, in order
    executedCommandIDs,  \* the deduplication set of spec.md section 3
    thrown,              \* whether the last synchronous call on the instance threw
    pending,             \* commits handed to sink() whose callback has not run yet, each
                         \* with the sink's answer and (history) the instance's sequence
                         \* number and staged buffer when commit() was called
    settled,             \* how the promise of the last finished commit() was settled
    sinkStreams,         \* the sink: per aggregate id, the accepted commits in order
    sinkHandled,         \* history: every commit the sink has answered, in order
    persisted,           \* history: handler calls owed to the events replayed by applyCommit
                         \*          and to the events of the instance's own accepted commits
    replays,             \* history: number of applyCommit calls that returned normally
    phase,               \* caller's position in the use case: "loading" or "executing"
    commitCalls,         \* history: number of commit() calls so far
    commandCalls,        \* history: number of command invocations so far
    stagedLog            \* history: the _stageEvent calls made since the last accepted
                         \*          commit, each with the event it was given and the
                         \*          instance's aggregate id at the call

aggVars == <<aggregateID, nextSequenceNumber, stagedEvents, state, executedCommandIDs,
             thrown, pending, settled, sinkStreams, sinkHandled, persisted, replays,
             phase, commitCalls, commandCalls, stagedLog>>

\* What a loader stage can resolve with: the instance loadAggregate created, another
\* object with the aggregate capability, an object without getAggregateID, or null.
LoaderValues == {"instance", "augmented", "malformed", "null"}
\* What a loader stage can fail with.
StageFailures == {"stageError"}

VARIABLES
    stageProviders,      \* this._stageProviders of the loader (the stages, in list order)
    loadPc,              \* position of loadAggregate: "new", "ready", "running" (a stage was
                         \* called), "between" (it resolved), "postprocess", "resolved", "rejected"
    pipelineValue,       \* the value the pipeline threads to the next stage
    loadResult,          \* how the promise of loadAggregate was settled
    rehydrateCalls,      \* history: the rehydrateObject calls made, in order
    stageAnswers         \* history: how each called stage answered, in order

loaderVars == <<stageProviders, loadPc, pipelineValue, loadResult, rehydrateCalls, stageAnswers>>

\* Instances whose aggregate type defines _getSnapshotData; the type of the other
\* instances inherits the stub marked unimplemented (line 100).
SnapshotCapable == {"i1"}

VARIABLES
    snapshots,           \* this._snapshots of the snapshotter: aggregate id -> stored snapshot
    immediates,          \* callbacks scheduled with setImmediate, in order
    saveAnswers,         \* history: every snapshotter.saveSnapshot call, with its argument
                         \*          and what became of the call
    loadAnswers,         \* history: every snapshotter.loadSnapshot call and its outcome
    snapshotReturned,    \* what the last saveSnapshot() call on each instance returned
    snapshotCalls        \* history: number of saveSnapshot()/loadSnapshot() calls so far

snapVars == <<snapshots, immediates, saveAnswers, loadAnswers, snapshotReturned, snapshotCalls>>

vars == <<aggVars, loaderVars, snapVars>>

\* ------------------------------------------------------------ value objects
\* new Commit(events, aggregateID, sequenceNumber): the metadata argument is not given.
Commit(events, id, seq) ==
    [events |-> events, aggregateID |-> id, sequenceNumber |-> seq, metadata |-> "commitMetadata"]

\* One handler call: the handler receives the event and the commit metadata.
HandlerCall(event, commitMetadata) == [event |-> event, commitMetadata |-> commitMetadata]

\* typeof(this['on' + event.eventType]) === 'function'
HasHandler(event) == event.eventType \in HandledTypes

\* Faulty variant of ApplyEvent: an event without a handler is skipped silently.
ApplyEventSkipping(st, event, commitMetadata) ==
    IF HasHandler(event)
    THEN [state |-> Append(st, HandlerCall(event, commitMetadata)), threw |-> FALSE]
    ELSE [state |-> st, threw |-> FALSE]

\* _applyEvent on observable state st: calls the handler, or throws.
ApplyEvent(st, event, commitMetadata) ==
    IF HasHandler(event)
    THEN [state |-> Append(st, HandlerCall(event, commitMetadata)), threw |-> FALSE]
    ELSE [state |-> st, threw |-> TRUE]

\* commit.events.forEach(_applyEvent): stops at the first event that throws.
RECURSIVE ApplyEvents(_, _, _)
ApplyEvents(st, events, commitMetadata) ==
    IF events = <<>> THEN [state |-> st, threw |-> FALSE]
    ELSE LET r == ApplyEvent(st, Head(events), commitMetadata)
         IN IF r.threw THEN r ELSE ApplyEvents(r.state, Tail(events), commitMetadata)

\* ------------------------------------------------------------------- Init
\* _initializeAggregateMetadata, followed by the loader's setAggregateID and
\* the wiring of the event sink.
InitAggregate ==
    /\ aggregateID = [i \in Instances |-> LoadedAggregateID]
    /\ nextSequenceNumber = [i \in Instances |-> 1]
    /\ stagedEvents = [i \in Instances |-> <<>>]
    /\ state = [i \in Instances |-> <<>>]
    /\ executedCommandIDs = [i \in Instances |-> {}]
    /\ thrown = [i \in Instances |-> FALSE]
    /\ pending = [i \in Instances |-> <<>>]
    /\ settled = [i \in Instances |-> [outcome |-> "none", value |-> "none"]]
    /\ sinkStreams = [id \in AggregateIDs |-> <<>>]
    /\ sinkHandled = <<>>
    /\ persisted = [i \in Instances |-> <<>>]
    /\ replays = [i \in Instances |-> 0]
    /\ phase = [i \in Instances |-> "loading"]
    /\ commitCalls = 0
    /\ commandCalls = 0
    /\ stagedLog = [i \in Instances |-> <<>>]

\* ------------------------------------------------------- aggregate engine
\* Faulty variant of StageEffect: the event keeps the aggregateID it came with.
StageEffectKeepingID(id, staged, st, event) ==
    LET r == ApplyEvent(st, event, "undefined")
    IN [stagedEvents |-> Append(staged, event), state |-> r.state, threw |-> r.threw]

\* _stageEvent(event): aggregateID is overwritten, the event is pushed, then applied;
\* _applyEvent is called without commit metadata. When _applyEvent throws, the push
\* has already happened.
StageEffect(id, staged, st, event) ==
    LET ev == [event EXCEPT !.aggregateID = id]
        r == ApplyEvent(st, ev, "undefined")
    IN [stagedEvents |-> Append(staged, ev), state |-> r.state, threw |-> r.threw]

StageEvent(i, event) ==
    LET r == StageEffect(aggregateID[i], stagedEvents[i], state[i], event)
    IN /\ stagedEvents' = [stagedEvents EXCEPT ![i] = r.stagedEvents]
       /\ state' = [state EXCEPT ![i] = r.state]
       /\ thrown' = [thrown EXCEPT ![i] = r.threw]
       /\ stagedLog' = [stagedLog EXCEPT ![i] = Append(@, [event |-> event, id |-> aggregateID[i]])]

\* A command method run through the deduplication wrapper of spec.md 4.1: skipped
\* when its command id is recorded as executed, otherwise the command stages one
\* event of type t carrying the command id.
ExecuteCommand(i, c, t) ==
    /\ commandCalls < MaxCommands
    /\ commandCalls' = commandCalls + 1
    /\ phase' = [phase EXCEPT ![i] = "executing"]
    /\ IF c \in executedCommandIDs[i]
       THEN UNCHANGED <<stagedEvents, state, thrown, stagedLog>>
       ELSE StageEvent(i, [eventType |-> t, commandID |-> c, aggregateID |-> "unset"])
    /\ UNCHANGED <<aggregateID, nextSequenceNumber, executedCommandIDs, pending, settled,
                   sinkStreams, sinkHandled, persisted, replays, commitCalls>>

\* Faulty variant of CommitObject: the expected sequence number counts the staged events.
CommitObjectPerEvent(staged, id, seq) == Commit(staged, id, seq + Len(staged))

\* Faulty variant of CommitObject: only the most recently staged event is bundled.
CommitObjectNewestOnly(staged, id, seq) ==
    Commit(IF staged = <<>> THEN <<>> ELSE <<staged[Len(staged)]>>, id, seq)

\* commit(), line 115: the Commit built from the staged events, the aggregate id and
\* the sequence number, whatever the number of staged events.
CommitObject(staged, id, seq) == Commit(staged, id, seq)

\* Faulty variant of CommitCall: an empty staged buffer is never sunk, the promise resolves at once.
CommitCallSkippingEmpty(i) ==
    /\ commitCalls < MaxCommits
    /\ pending' = [pending EXCEPT ![i] =
            IF stagedEvents[i] = <<>> THEN @
            ELSE Append(@,
                [commit |-> CommitObject(stagedEvents[i], aggregateID[i], nextSequenceNumber[i]),
                 result |-> "sent",
                 seqAtCall |-> nextSequenceNumber[i], stagedAtCall |-> stagedEvents[i]])]
    /\ settled' = [settled EXCEPT ![i] =
            IF stagedEvents[i] = <<>> THEN [outcome |-> "resolved", value |-> "none"]
            ELSE [outcome |-> "pending", value |-> "none"]]
    /\ thrown' = [thrown EXCEPT ![i] = FALSE]
    /\ phase' = [phase EXCEPT ![i] = "executing"]
    /\ commitCalls' = commitCalls + 1
    /\ UNCHANGED <<aggregateID, nextSequenceNumber, stagedEvents, state, executedCommandIDs,
                   sinkStreams, sinkHandled, persisted, replays, commandCalls,
                   stagedLog>>

\* commit(): builds the Commit and hands it to the sink; the promise is pending.
CommitCall(i) ==
    /\ commitCalls < MaxCommits
    /\ pending' = [pending EXCEPT ![i] = Append(@,
            [commit |-> CommitObject(stagedEvents[i], aggregateID[i], nextSequenceNumber[i]),
             result |-> "sent",
             seqAtCall |-> nextSequenceNumber[i], stagedAtCall |-> stagedEvents[i]])]
    /\ settled' = [settled EXCEPT ![i] = [outcome |-> "pending", value |-> "none"]]
    /\ thrown' = [thrown EXCEPT ![i] = FALSE]
    /\ phase' = [phase EXCEPT ![i] = "executing"]
    /\ commitCalls' = commitCalls + 1
    /\ UNCHANGED <<aggregateID, nextSequenceNumber, stagedEvents, state, executedCommandIDs,
                   sinkStreams, sinkHandled, persisted, replays, commandCalls,
                   stagedLog>>

\* The handler calls owed to a list of events applied with the given metadata.
RECURSIVE CallsOf(_, _)
CallsOf(events, commitMetadata) ==
    IF events = <<>> THEN <<>>
    ELSE <<HandlerCall(Head(events), commitMetadata)>> \o CallsOf(Tail(events), commitMetadata)

Remove(seq, k) == SubSeq(seq, 1, k - 1) \o SubSeq(seq, k + 1, Len(seq))

\* Faulty variant of SinkSucceededEffect: the sequence number advances once per event.
SinkSucceededPerEvent(staged, seq) ==
    [stagedEvents |-> <<>>, nextSequenceNumber |-> seq + Len(staged)]

\* _commitSinkSucceeded(result): the staged buffer is replaced by an empty one and the
\* sequence number advances.
SinkSucceededEffect(staged, seq) == [stagedEvents |-> <<>>, nextSequenceNumber |-> seq + 1]

CommitSinkSucceeded(i, k) ==
    /\ k \in 1..Len(pending[i])
    /\ pending[i][k].result = "accepted"
    /\ LET r == SinkSucceededEffect(stagedEvents[i], nextSequenceNumber[i])
       IN /\ stagedEvents' = [stagedEvents EXCEPT ![i] = r.stagedEvents]
          /\ nextSequenceNumber' = [nextSequenceNumber EXCEPT ![i] = r.nextSequenceNumber]
    /\ settled' = [settled EXCEPT ![i] = [outcome |-> "resolved", value |-> "accepted"]]
    /\ persisted' = [persisted EXCEPT ![i] = @ \o CallsOf(pending[i][k].commit.events, "undefined")]
    /\ stagedLog' = [stagedLog EXCEPT ![i] =
            SubSeq(@, Len(pending[i][k].commit.events) + 1, Len(@))]
    /\ pending' = [pending EXCEPT ![i] = Remove(@, k)]
    /\ UNCHANGED <<aggregateID, state, executedCommandIDs, thrown, sinkStreams, sinkHandled,
                   replays, phase, commitCalls, commandCalls>>

\* Faulty variant of SinkFailedEffect: the failure callback clears the buffer like the success one.
SinkFailedClearing(staged, seq) == [stagedEvents |-> <<>>, nextSequenceNumber |-> seq]

\* Faulty variant of SinkFailedEffect: the failure callback advances the sequence number.
SinkFailedAdvancing(staged, seq) == [stagedEvents |-> staged, nextSequenceNumber |-> seq + 1]

\* _commitSinkFailed(reason): only the promise is rejected.
SinkFailedEffect(staged, seq) == [stagedEvents |-> staged, nextSequenceNumber |-> seq]

CommitSinkFailed(i, k) ==
    /\ k \in 1..Len(pending[i])
    /\ pending[i][k].result \in {"conflict", "failure"}
    /\ LET r == SinkFailedEffect(stagedEvents[i], nextSequenceNumber[i])
       IN /\ stagedEvents' = [stagedEvents EXCEPT ![i] = r.stagedEvents]
          /\ nextSequenceNumber' = [nextSequenceNumber EXCEPT ![i] = r.nextSequenceNumber]
    /\ settled' = [settled EXCEPT ![i] = [outcome |-> "rejected", value |-> pending[i][k].result]]
    /\ pending' = [pending EXCEPT ![i] = Remove(@, k)]
    /\ UNCHANGED <<aggregateID, state, executedCommandIDs, thrown, sinkStreams, sinkHandled,
                   persisted, replays, phase, commitCalls, commandCalls,
                   stagedLog>>

\* Faulty variant of ApplyCommitEffect: the sequence number advances once per applied event.
ApplyCommitPerEvent(st, seq, commit) ==
    LET r == ApplyEvents(st, commit.events, commit.metadata)
    IN [state |-> r.state,
        nextSequenceNumber |-> IF r.threw THEN seq ELSE seq + Len(commit.events),
        threw |-> r.threw]

\* applyCommit(commit): every event is applied with the commit's metadata, then the
\* sequence number is incremented; an event that throws ends the call before that.
ApplyCommitEffect(st, seq, commit) ==
    LET r == ApplyEvents(st, commit.events, commit.metadata)
    IN [state |-> r.state,
        nextSequenceNumber |-> IF r.threw THEN seq ELSE seq + 1,
        threw |-> r.threw]

\* A rehydration step: the next stored commit of the aggregate's stream is applied.
ApplyCommit(i) ==
    /\ nextSequenceNumber[i] <= Len(sinkStreams[aggregateID[i]])
    /\ LET commit == sinkStreams[aggregateID[i]][nextSequenceNumber[i]]
           r == ApplyCommitEffect(state[i], nextSequenceNumber[i], commit)
       IN /\ Len(state[i]) <= MaxCommands
          /\ state' = [state EXCEPT ![i] = r.state]
          /\ nextSequenceNumber' = [nextSequenceNumber EXCEPT ![i] = r.nextSequenceNumber]
          /\ thrown' = [thrown EXCEPT ![i] = r.threw]
          /\ persisted' = [persisted EXCEPT ![i] =
                              @ \o SubSeq(r.state, Len(state[i]) + 1, Len(r.state))]
          /\ replays' = [replays EXCEPT ![i] = IF r.threw THEN @ ELSE @ + 1]
    /\ UNCHANGED <<aggregateID, stagedEvents, executedCommandIDs, pending, settled,
                   sinkStreams, sinkHandled, phase, commitCalls, commandCalls,
                   stagedLog>>

\* ------------------------------------------------------------ the event sink
\* sink(commit) of spec.md section 6: the commit is accepted when its
\* expectedSequenceNumber is the stream's recorded next sequence number ...
SinkAccepts(stream, commit) == commit.sequenceNumber = Len(stream) + 1

Handled(i, k, result) ==
    /\ pending' = [pending EXCEPT ![i][k].result = result]
    /\ sinkHandled' = Append(sinkHandled,
            [inst |-> i, commit |-> pending[i][k].commit, result |-> result,
             seqAtCall |-> pending[i][k].seqAtCall,
             recorded |-> Len(sinkStreams[pending[i][k].commit.aggregateID]) + 1])

SinkAccept(i, k) ==
    /\ k \in 1..Len(pending[i])
    /\ pending[i][k].result = "sent"
    /\ LET commit == pending[i][k].commit
       IN /\ SinkAccepts(sinkStreams[commit.aggregateID], commit)
          /\ sinkStreams' = [sinkStreams EXCEPT ![commit.aggregateID] = Append(@, commit)]
    /\ Handled(i, k, "accepted")
    /\ UNCHANGED <<aggregateID, nextSequenceNumber, stagedEvents, state, executedCommandIDs,
                   thrown, settled, persisted, replays, phase, commitCalls, commandCalls,
                   stagedLog>>

\* ... rejected with a concurrency conflict when it is not ...
SinkConflict(i, k) ==
    /\ k \in 1..Len(pending[i])
    /\ pending[i][k].result = "sent"
    /\ LET commit == pending[i][k].commit
       IN ~SinkAccepts(sinkStreams[commit.aggregateID], commit)
    /\ Handled(i, k, "conflict")
    /\ UNCHANGED <<aggregateID, nextSequenceNumber, stagedEvents, state, executedCommandIDs,
                   thrown, settled, sinkStreams, persisted, replays, phase, commitCalls, commandCalls,
                   stagedLog>>

\* ... and may fail for a transport or storage error whatever the sequence number.
SinkFail(i, k) ==
    /\ k \in 1..Len(pending[i])
    /\ pending[i][k].result = "sent"
    /\ Handled(i, k, "failure")
    /\ UNCHANGED <<aggregateID, nextSequenceNumber, stagedEvents, state, executedCommandIDs,
                   thrown, settled, sinkStreams, persisted, replays, phase, commitCalls, commandCalls,
                   stagedLog>>

\* ------------------------------------------------------------------ loader
InitLoader ==
    /\ stageProviders = <<>>
    /\ loadPc = "new"
    /\ pipelineValue = "none"
    /\ loadResult = [outcome |-> "none", value |-> "none"]
    /\ rehydrateCalls = <<>>
    /\ stageAnswers = <<>>

\* new AggregateLoader(stageProviders) with n stage providers.
AggregateLoader(n) ==
    /\ loadPc = "new"
    /\ stageProviders' = [k \in 1..n |-> k]
    /\ loadPc' = "ready"
    /\ UNCHANGED <<pipelineValue, loadResult, rehydrateCalls, stageAnswers>>

\* isAggregateInstance(testedObject): typeof(testedObject.getAggregateID) === 'function',
\* which throws a TypeError when testedObject is null or undefined.
IsAggregateInstance(v) ==
    CASE v = "null" -> "TypeError"
      [] v \in {"instance", "augmented"} -> "true"
      [] OTHER -> "false"

\* Faulty variant of PipelineArgument: every stage is given the initial instance.
PipelineArgumentInitial(k, initial, previous) == initial

\* pipeline(rehydrators, aggregateInstance): the first task gets the initial argument,
\* every later task the value the task before it resolved with.
PipelineArgument(k, initial, previous) == IF k = 1 THEN initial ELSE previous

\* loadAggregate(aggregateConstructor, aggregateID), lines 37-41: the instance is
\* created and the pipeline over the stages is started with it.
LoadAggregate ==
    /\ loadPc = "ready"
    /\ pipelineValue' = "instance"
    /\ loadPc' = IF stageProviders = <<>> THEN "postprocess" ELSE "between"
    /\ UNCHANGED <<stageProviders, loadResult, rehydrateCalls, stageAnswers>>

\* The pipeline calls rehydrateObject of the next stage.
CallStage ==
    /\ loadPc = "between"
    /\ LET k == Len(stageAnswers) + 1
       IN rehydrateCalls' = Append(rehydrateCalls,
              [stage |-> stageProviders[k],
               given |-> PipelineArgument(k, "instance", pipelineValue)])
    /\ loadPc' = "running"
    /\ UNCHANGED <<stageProviders, pipelineValue, loadResult, stageAnswers>>

\* The stage that was called resolves with v.
StageResolves(v) ==
    /\ loadPc = "running"
    /\ stageAnswers' = Append(stageAnswers,
           [stage |-> rehydrateCalls[Len(rehydrateCalls)].stage, outcome |-> "resolved", value |-> v])
    /\ pipelineValue' = v
    /\ loadPc' = IF Len(stageAnswers') = Len(stageProviders) THEN "postprocess" ELSE "between"
    /\ UNCHANGED <<stageProviders, loadResult, rehydrateCalls>>

\* The stage that was called fails: the pipeline rejects, and so does the promise
\* loadAggregate returned (postProcessLoadedAggregate is not run).
StageFails(reason) ==
    /\ loadPc = "running"
    /\ stageAnswers' = Append(stageAnswers,
           [stage |-> rehydrateCalls[Len(rehydrateCalls)].stage, outcome |-> "failed", value |-> reason])
    /\ loadResult' = [outcome |-> "rejected", value |-> reason]
    /\ loadPc' = "rejected"
    /\ UNCHANGED <<stageProviders, pipelineValue, rehydrateCalls>>

\* postProcessLoadedAggregate(processedInstance), lines 42-49: the sanity check, then
\* aggregateInstance (the instance created on line 37) is returned.
PostProcessLoadedAggregate ==
    /\ loadPc = "postprocess"
    /\ LET check == IsAggregateInstance(pipelineValue)
       IN /\ loadResult' =
                CASE check = "TypeError" -> [outcome |-> "rejected", value |-> "TypeError"]
                  [] check = "false" -> [outcome |-> "rejected", value |-> "LoaderOutputMalformedError"]
                  [] OTHER -> [outcome |-> "resolved", value |-> "instance"]
          /\ loadPc' = IF check = "true" THEN "resolved" ELSE "rejected"
    /\ UNCHANGED <<stageProviders, pipelineValue, rehydrateCalls, stageAnswers>>

NextLoader ==
    \/ \E n \in 0..MaxStages : AggregateLoader(n) /\ UNCHANGED <<aggVars, snapVars>>
    \/ LoadAggregate /\ UNCHANGED <<aggVars, snapVars>>
    \/ CallStage /\ UNCHANGED <<aggVars, snapVars>>
    \/ \E v \in LoaderValues : StageResolves(v) /\ UNCHANGED <<aggVars, snapVars>>
    \/ \E reason \in StageFailures : StageFails(reason) /\ UNCHANGED <<aggVars, snapVars>>
    \/ PostProcessLoadedAggregate /\ UNCHANGED <<aggVars, snapVars>>

\* --------------------------------------------------------------- snapshots
\* new AggregateSnapshot(aggregateID, aggregateState, sequenceNumber)
AggregateSnapshot(id, data, seq) == [aggregateID |-> id, state |-> data, sequenceNumber |-> seq]

\* null, and the reason loadSnapshot rejects with (reject() without an argument).
Null == [null |-> TRUE]
Undefined == [undefined |-> TRUE]

\* AggregateSnapshot.isAggregateSnapshot of spec.md 4.2: the object has a non-empty
\* aggregate id, a sequence number and a state payload.
IsAggregateSnapshot(s) ==
    /\ {"aggregateID", "sequenceNumber", "state"} \subseteq DOMAIN s
    /\ s.aggregateID # ""

\* this._snapshots = {} of a new DummyAggregateSnapshotter.
InitSnapshotter ==
    /\ snapshots = [id \in {} |-> Null]
    /\ immediates = <<>>
    /\ saveAnswers = <<>>
    /\ loadAnswers = <<>>
    /\ snapshotReturned = [i \in Instances |-> "none"]
    /\ snapshotCalls = 0

\* this._snapshots[key] = value
Put(store, key, value) ==
    [k \in DOMAIN store \cup {key} |-> IF k = key THEN value ELSE store[k]]

\* Faulty variant of SnapshotterSaveEffect: the snapshot is stored before it is validated.
SnapshotterSaveUnchecked(store, s) ==
    IF "aggregateID" \notin DOMAIN s
    THEN [snapshots |-> store, answer |-> "rejected"]
    ELSE [snapshots |-> Put(store, s.aggregateID, s),
          answer |-> IF IsAggregateSnapshot(s) THEN "pending" ELSE "rejected"]

\* DummyAggregateSnapshotter.prototype.saveSnapshot, lines 157-167: a malformed argument
\* is rejected at once; a well-formed one is stored under its aggregate id and the
\* returned promise is resolved by a setImmediate callback.
SnapshotterSaveEffect(store, s) ==
    IF ~IsAggregateSnapshot(s)
    THEN [snapshots |-> store, answer |-> "rejected"]
    ELSE [snapshots |-> Put(store, s.aggregateID, s), answer |-> "pending"]

SnapshotterSave(s) ==
    LET r == SnapshotterSaveEffect(snapshots, s)
    IN /\ snapshots' = r.snapshots
       /\ saveAnswers' = Append(saveAnswers, [snapshot |-> s, answer |-> r.answer])
       /\ immediates' = IF r.answer = "pending"
                         THEN Append(immediates, [kind |-> "saved", call |-> Len(saveAnswers) + 1])
                         ELSE immediates

\* DummyAggregateSnapshotter.prototype.loadSnapshot, lines 169-180: the lookup happens in
\* a setImmediate callback.
SnapshotterLoad(id) ==
    /\ loadAnswers' = Append(loadAnswers, [aggregateID |-> id, outcome |-> "pending", value |-> Undefined])
    /\ immediates' = Append(immediates, [kind |-> "load", call |-> Len(loadAnswers) + 1])

\* The callback of loadSnapshot, lines 172-178: resolves with the stored snapshot when
\* there is a well-formed one under the id, rejects without a reason otherwise.
LoadSnapshotEffect(store, id) ==
    IF id \in DOMAIN store /\ IsAggregateSnapshot(store[id])
    THEN [outcome |-> "resolved", value |-> store[id]]
    ELSE [outcome |-> "rejected", value |-> Undefined]

\* The event loop runs the oldest setImmediate callback.
RunImmediate ==
    /\ immediates # <<>>
    /\ LET cb == Head(immediates)
       IN IF cb.kind = "saved"
          THEN /\ saveAnswers' = [saveAnswers EXCEPT ![cb.call].answer = "resolved"]
               /\ UNCHANGED loadAnswers
          ELSE /\ LET r == LoadSnapshotEffect(snapshots, loadAnswers[cb.call].aggregateID)
                  IN loadAnswers' = [loadAnswers EXCEPT ![cb.call].outcome = r.outcome,
                                                        ![cb.call].value = r.value]
               /\ UNCHANGED saveAnswers
    /\ immediates' = Tail(immediates)
    /\ UNCHANGED <<snapshots, snapshotReturned, snapshotCalls>>

\* The state payloads of the snapshots tried on the snapshotter.
SnapshotStates ==
    {<<>>, <<HandlerCall([eventType |-> "A", commandID |-> "c1", aggregateID |-> LoadedAggregateID],
                         "undefined")>>}

\* The arguments tried on the snapshotter's saveSnapshot: well-formed snapshots, a
\* snapshot without state payload, one with an empty aggregate id, and null.
SnapshotInputs ==
    {AggregateSnapshot(id, data, Len(data)) : id \in AggregateIDs, data \in SnapshotStates}
    \cup {[aggregateID |-> LoadedAggregateID, sequenceNumber |-> 1],
          AggregateSnapshot("", <<>>, 0),
          Null}

\* A direct saveSnapshot call on the snapshotter.
SnapshotterSaveCall(s) ==
    /\ snapshotCalls < MaxSnapshotterCalls
    /\ snapshotCalls' = snapshotCalls + 1
    /\ SnapshotterSave(s)
    /\ UNCHANGED <<loadAnswers, snapshotReturned>>

\* A direct loadSnapshot call on the snapshotter.
SnapshotterLoadCall(id) ==
    /\ snapshotCalls < MaxSnapshotterCalls
    /\ snapshotCalls' = snapshotCalls + 1
    /\ SnapshotterLoad(id)
    /\ UNCHANGED <<snapshots, saveAnswers, snapshotReturned>>

\* this._getSnapshotData() of a type that defines it: the state its handlers built.
GetSnapshotData(i) == state[i]

\* Faulty variant of SaveSnapshotEffect: the snapshotter is called whatever the type defines.
SaveSnapshotAlways(implemented, id, data, seq) ==
    [delegated |-> TRUE, snapshot |-> AggregateSnapshot(id, data, seq - 1)]

\* saveSnapshot(), lines 128-136: when the type implements _getSnapshotData, the
\* snapshot of (aggregate id, snapshot data, nextSequenceNumber - 1) goes to the
\* snapshotter; otherwise a rejected promise is returned.
SaveSnapshotEffect(implemented, id, data, seq) ==
    IF implemented
    THEN [delegated |-> TRUE, snapshot |-> AggregateSnapshot(id, data, seq - 1)]
    ELSE [delegated |-> FALSE, snapshot |-> Null]

SaveSnapshot(i) ==
    /\ snapshotCalls < MaxSnapshotCalls
    /\ snapshotCalls' = snapshotCalls + 1
    /\ LET r == SaveSnapshotEffect(i \in SnapshotCapable, aggregateID[i],
                                   GetSnapshotData(i), nextSequenceNumber[i])
       IN IF r.delegated
          THEN /\ SnapshotterSave(r.snapshot)
               /\ snapshotReturned' = [snapshotReturned EXCEPT ![i] = "snapshotter's promise"]
          ELSE /\ snapshotReturned' = [snapshotReturned EXCEPT ![i] = "rejected: not saving"]
               /\ UNCHANGED <<snapshots, saveAnswers, immediates>>
    /\ UNCHANGED loadAnswers
    /\ UNCHANGED aggVars

\* ------------------------------------------------------------ specification
Init == InitAggregate /\ InitLoader /\ InitSnapshotter

\* The caller has no commit() of instance i outstanding (spec.md section 5: every
\* asynchronous boundary is awaited before the instance is used again).
Idle(i) == pending[i] = <<>>

\* Callers that follow the use-case discipline of spec.md sections 2 and 5: an
\* instance is rehydrated with applyCommit, then runs commands and commits, and each
\* commit() is awaited.
Next ==
    \/ \E i \in Instances :
          Idle(i) /\ phase[i] = "loading" /\ ApplyCommit(i) /\ UNCHANGED <<loaderVars, snapVars>>
    \/ \E i \in Instances, in \in CommandInputs :
          Idle(i) /\ ExecuteCommand(i, in[1], in[2]) /\ UNCHANGED <<loaderVars, snapVars>>
    \/ \E i \in Instances : Idle(i) /\ CommitCall(i) /\ UNCHANGED <<loaderVars, snapVars>>
    \/ \E i \in Instances, k \in 1..MaxCommits : SinkAccept(i, k) /\ UNCHANGED <<loaderVars, snapVars>>
    \/ \E i \in Instances, k \in 1..MaxCommits : SinkConflict(i, k) /\ UNCHANGED <<loaderVars, snapVars>>
    \/ \E i \in Instances, k \in 1..MaxCommits : SinkFail(i, k) /\ UNCHANGED <<loaderVars, snapVars>>
    \/ \E i \in Instances, k \in 1..MaxCommits :
          CommitSinkSucceeded(i, k) /\ UNCHANGED <<loaderVars, snapVars>>
    \/ \E i \in Instances, k \in 1..MaxCommits : CommitSinkFailed(i, k) /\ UNCHANGED <<loaderVars, snapVars>>

\* The use cases of the aggregate engine against one sink.
Spec == Init /\ [][Next]_vars

\* One loadAggregate call of a loader configured with up to MaxStages stages.
SpecLoader == Init /\ [][NextLoader]_vars

\* The aggregate id of an instance is set from outside (spec.md 6: get/set aggregate id).
SetAggregateID(i, id) ==
    /\ aggregateID[i] # id
    /\ aggregateID' = [aggregateID EXCEPT ![i] = id]
    /\ UNCHANGED <<nextSequenceNumber, stagedEvents, state, executedCommandIDs, thrown, pending,
                   settled, sinkStreams, sinkHandled, persisted, replays, phase, commitCalls,
                   commandCalls, stagedLog>>

\* The command invocations whose event has a handler.
HandledCommands == {in \in CommandInputs : in[2] \in HandledTypes}

\* Callers that do not await: a command may run and commit() may be called again
\* while earlier commit() calls of the instance are still pending.
NextOverlapping ==
    \/ \E i \in Instances :
          Idle(i) /\ phase[i] = "loading" /\ ApplyCommit(i) /\ UNCHANGED <<loaderVars, snapVars>>
    \/ \E i \in Instances, in \in HandledCommands :
          ExecuteCommand(i, in[1], in[2]) /\ UNCHANGED <<loaderVars, snapVars>>
    \/ \E i \in Instances : CommitCall(i) /\ UNCHANGED <<loaderVars, snapVars>>
    \/ \E i \in Instances, k \in 1..MaxCommits :
          SinkAccept(i, k) /\ UNCHANGED <<loaderVars, snapVars>>
    \/ \E i \in Instances, k \in 1..MaxCommits :
          SinkConflict(i, k) /\ UNCHANGED <<loaderVars, snapVars>>
    \/ \E i \in Instances, k \in 1..MaxCommits :
          SinkFail(i, k) /\ UNCHANGED <<loaderVars, snapVars>>
    \/ \E i \in Instances, k \in 1..MaxCommits :
          CommitSinkSucceeded(i, k) /\ UNCHANGED <<loaderVars, snapVars>>
    \/ \E i \in Instances, k \in 1..MaxCommits :
          CommitSinkFailed(i, k) /\ UNCHANGED <<loaderVars, snapVars>>

SpecOverlapping == Init /\ [][NextOverlapping]_vars

\* Instance i is the only one in use: no other instance has been touched.
SoleUser(i) ==
    \A j \in Instances \ {i} : phase[j] = "loading" /\ snapshotReturned[j] = "none"

\* One writer's use cases with snapshots: a new aggregate runs commands and commits,
\* each commit() awaited, and may be asked to save a snapshot whenever it is idle.
NextSnapshot ==
    \/ \E i \in Instances, in \in CommandInputs :
          SoleUser(i) /\ Idle(i) /\ ExecuteCommand(i, in[1], in[2])
              /\ UNCHANGED <<loaderVars, snapVars>>
    \/ \E i \in Instances :
          SoleUser(i) /\ Idle(i) /\ CommitCall(i) /\ UNCHANGED <<loaderVars, snapVars>>
    \/ \E i \in Instances, k \in 1..MaxCommits :
          SinkAccept(i, k) /\ UNCHANGED <<loaderVars, snapVars>>
    \/ \E i \in Instances, k \in 1..MaxCommits :
          SinkFail(i, k) /\ UNCHANGED <<loaderVars, snapVars>>
    \/ \E i \in Instances, k \in 1..MaxCommits :
          CommitSinkSucceeded(i, k) /\ UNCHANGED <<loaderVars, snapVars>>
    \/ \E i \in Instances, k \in 1..MaxCommits :
          CommitSinkFailed(i, k) /\ UNCHANGED <<loaderVars, snapVars>>
    \/ \E i \in Instances : SoleUser(i) /\ Idle(i) /\ SaveSnapshot(i) /\ UNCHANGED loaderVars
    \/ RunImmediate /\ UNCHANGED <<aggVars, loaderVars>>

SpecSnapshot == Init /\ [][NextSnapshot]_vars

\* One writer's use cases when the instance's aggregate id may be set again at any
\* time the instance is idle.
NextIdentity ==
    \/ \E i \in Instances, id \in AggregateIDs :
          SoleUser(i) /\ Idle(i) /\ SetAggregateID(i, id) /\ UNCHANGED <<loaderVars, snapVars>>
    \/ \E i \in Instances, in \in CommandInputs :
          SoleUser(i) /\ Idle(i) /\ ExecuteCommand(i, in[1], in[2])
              /\ UNCHANGED <<loaderVars, snapVars>>
    \/ \E i \in Instances :
          SoleUser(i) /\ Idle(i) /\ CommitCall(i) /\ UNCHANGED <<loaderVars, snapVars>>
    \/ \E i \in Instances, k \in 1..MaxCommits :
          SinkAccept(i, k) /\ UNCHANGED <<loaderVars, snapVars>>
    \/ \E i \in Instances, k \in 1..MaxCommits :
          SinkConflict(i, k) /\ UNCHANGED <<loaderVars, snapVars>>
    \/ \E i \in Instances, k \in 1..MaxCommits :
          SinkFail(i, k) /\ UNCHANGED <<loaderVars, snapVars>>
    \/ \E i \in Instances, k \in 1..MaxCommits :
          CommitSinkSucceeded(i, k) /\ UNCHANGED <<loaderVars, snapVars>>
    \/ \E i \in Instances, k \in 1..MaxCommits :
          CommitSinkFailed(i, k) /\ UNCHANGED <<loaderVars, snapVars>>

SpecIdentity == Init /\ [][NextIdentity]_vars

\* The in-memory snapshotter used on its own.
NextSnapshotter ==
    \/ \E s \in SnapshotInputs : SnapshotterSaveCall(s) /\ UNCHANGED <<aggVars, loaderVars>>
    \/ \E id \in AggregateIDs : SnapshotterLoadCall(id) /\ UNCHANGED <<aggVars, loaderVars>>
    \/ RunImmediate /\ UNCHANGED <<aggVars, loaderVars>>

SpecSnapshotter == Init /\ [][NextSnapshotter]_vars

\* ------------------------------------------------------------------ claims
\* C1: when commit() was called with N staged events and the sink accepted the
\* commit, the acceptance callback leaves nextSequenceNumber at its value before the
\* call plus one, whatever N, and the staged buffer empty.
C1_AcceptedCommitAdvancesByOne ==
    [][\A i \in Instances, k \in 1..MaxCommits :
          CommitSinkSucceeded(i, k) =>
              /\ nextSequenceNumber'[i] = pending[i][k].seqAtCall + 1
              /\ stagedEvents'[i] = <<>>]_vars

\* An accepted commit of two events has been acknowledged to its instance.
C1_Witness ==
    \E i \in Instances, h \in DOMAIN sinkHandled :
        /\ sinkHandled[h].inst = i
        /\ sinkHandled[h].result = "accepted"
        /\ Len(sinkHandled[h].commit.events) = 2
        /\ settled[i].outcome = "resolved"
        /\ nextSequenceNumber[i] = sinkHandled[h].seqAtCall + 1

\* C2: when the sink rejects a commit (storage failure or sequence mismatch), the
\* rejection callback leaves the staged buffer and nextSequenceNumber as they were
\* before commit() was called, the promise is rejected with the sink's reason, and
\* nothing is submitted to the sink again.
C2_RejectedCommitChangesNothing ==
    [][\A i \in Instances, k \in 1..MaxCommits :
          CommitSinkFailed(i, k) =>
              /\ stagedEvents'[i] = pending[i][k].stagedAtCall
              /\ nextSequenceNumber'[i] = pending[i][k].seqAtCall
              /\ settled'[i] = [outcome |-> "rejected", value |-> pending[i][k].result]
              /\ \A j \in Instances : \A n \in DOMAIN pending'[j] :
                     pending'[j][n].result = "sent" =>
                         \E m \in DOMAIN pending[j] : pending[j][m] = pending'[j][n]
              /\ commitCalls' = commitCalls]_vars

\* A commit of a non-empty buffer was rejected for a conflict and the buffer is still there.
C2_Witness ==
    \E i \in Instances :
        /\ settled[i] = [outcome |-> "rejected", value |-> "conflict"]
        /\ stagedEvents[i] # <<>>
        /\ pending[i] = <<>>

\* C3 (original statement): commit() with an empty staged buffer never hands anything
\* to the sink, so no commit without events is ever pending at the sink.
C3_EmptyCommitNeverSunk ==
    \A i \in Instances : \A k \in DOMAIN pending[i] : pending[i][k].commit.events # <<>>

\* C3 (amended): commit() with an empty staged buffer hands the sink a Commit without
\* events whose expectedSequenceNumber is nextSequenceNumber; the call itself leaves
\* nextSequenceNumber unchanged and the promise stays pending until the sink answers.
C3_EmptyCommitIsSunk ==
    [][\A i \in Instances :
          (CommitCall(i) /\ stagedEvents[i] = <<>>) =>
              /\ Len(pending'[i]) = Len(pending[i]) + 1
              /\ pending'[i][Len(pending'[i])].commit =
                     Commit(<<>>, aggregateID[i], nextSequenceNumber[i])
              /\ pending'[i][Len(pending'[i])].result = "sent"
              /\ settled'[i].outcome = "pending"
              /\ nextSequenceNumber'[i] = nextSequenceNumber[i]]_vars

\* An empty commit was accepted by the sink and acknowledged to the instance.
C3_Witness ==
    \E i \in Instances, h \in DOMAIN sinkHandled :
        /\ sinkHandled[h].inst = i
        /\ sinkHandled[h].commit.events = <<>>
        /\ sinkHandled[h].result = "accepted"
        /\ settled[i].outcome = "resolved"

\* The commits the sink has answered for two different instances that were at the
\* same sequence number when they called commit(), the first answered first.
RacingPairs ==
    {p \in (DOMAIN sinkHandled) \X (DOMAIN sinkHandled) :
        /\ p[1] < p[2]
        /\ sinkHandled[p[1]].inst # sinkHandled[p[2]].inst
        /\ sinkHandled[p[1]].commit.aggregateID = sinkHandled[p[2]].commit.aggregateID
        /\ sinkHandled[p[1]].seqAtCall = sinkHandled[p[2]].seqAtCall}

Accepted == SelectSeq(sinkHandled, LAMBDA h : h.result = "accepted")

\* C5: the commits accepted for one aggregate id are totally ordered: the k-th
\* accepted commit has expectedSequenceNumber k (no gap, no duplicate), which is the
\* nextSequenceNumber of the instance that submitted it, and the stream holds them
\* in that order.
C5_AcceptedCommitsTotallyOrdered ==
    /\ \A id \in AggregateIDs : \A k \in DOMAIN sinkStreams[id] :
          sinkStreams[id][k].sequenceNumber = k
    /\ \A k \in DOMAIN Accepted :
          /\ Accepted[k].commit.sequenceNumber = k
          /\ Accepted[k].seqAtCall = k
          /\ sinkStreams[Accepted[k].commit.aggregateID][k] = Accepted[k].commit

\* Two commits by different instances were accepted one after the other.
C5_Witness ==
    /\ Len(Accepted) = 2
    /\ Accepted[1].inst # Accepted[2].inst
    /\ Accepted[2].commit.events # <<>>

\* The command ids of the events applied to or staged on an instance: of the commands
\* already executed on it and of the commits replayed into it.
SeenCommandIDs(i) ==
    {state[i][n].event.commandID : n \in DOMAIN state[i]}
        \cup {stagedEvents[i][n].commandID : n \in DOMAIN stagedEvents[i]}

\* C6: a command invocation whose command id was already executed on the instance, or
\* is carried by a replayed commit, stages no event and leaves the observable state,
\* the staged buffer and executedCommandIDs unchanged.
C6_RepeatedCommandIsNoOp ==
    [][\A i \in Instances, in \in CommandInputs :
          (ExecuteCommand(i, in[1], in[2]) /\ in[1] \in SeenCommandIDs(i)) =>
              /\ state'[i] = state[i]
              /\ stagedEvents'[i] = stagedEvents[i]
              /\ executedCommandIDs'[i] = executedCommandIDs[i]]_vars

\* C7: the observable state is the fold of the apply function over the replayed and
\* persisted events followed by the events in the staged buffer, in that order
\* (every staged event has been applied exactly once).
C7_StateIsFoldOfHistoryAndStaged ==
    \A i \in Instances :
        state[i] = persisted[i] \o CallsOf(stagedEvents[i], "undefined")

\* The handler calls a replay of the given commits makes when none of them throws.
RECURSIVE ReplayCalls(_)
ReplayCalls(commits) ==
    IF commits = <<>> THEN <<>>
    ELSE CallsOf(Head(commits).events, Head(commits).metadata) \o ReplayCalls(Tail(commits))

\* C8: an instance that has replayed k commits with applyCommit has
\* nextSequenceNumber = k + 1 whatever the number of events in them, and its state
\* is the events of those commits applied in the commits' order.
C8_ReplayAdvancesOncePerCommit ==
    \A i \in Instances :
        phase[i] = "loading" =>
            /\ nextSequenceNumber[i] = replays[i] + 1
            /\ ~thrown[i] =>
                   state[i] = ReplayCalls(SubSeq(sinkStreams[aggregateID[i]], 1, replays[i]))

\* An instance has replayed two commits, one of them of two events or of none.
C8_Witness ==
    \E i \in Instances :
        /\ phase[i] = "loading"
        /\ replays[i] = 2
        /\ nextSequenceNumber[i] = 3
        /\ \E k \in 1..2 : Len(sinkStreams[aggregateID[i]][k].events) # 1

\* The events of a list that come before its first event without a handler.
RECURSIVE HandledPrefix(_)
HandledPrefix(events) ==
    IF events = <<>> \/ ~HasHandler(Head(events)) THEN <<>>
    ELSE <<Head(events)>> \o HandledPrefix(Tail(events))

\* C9: an event whose type has no handler is never skipped: staging it throws and
\* applies nothing, and an applyCommit that meets one throws, applies no event after
\* it and does not advance nextSequenceNumber.
C9_UnhandledEventThrows ==
    [][\A i \in Instances :
          /\ \A in \in CommandInputs :
                (ExecuteCommand(i, in[1], in[2]) /\ in[2] \notin HandledTypes
                    /\ in[1] \notin executedCommandIDs[i]) =>
                    (thrown'[i] /\ state'[i] = state[i])
          /\ (ApplyCommit(i) /\ \E n \in DOMAIN sinkStreams[aggregateID[i]][nextSequenceNumber[i]].events :
                    ~HasHandler(sinkStreams[aggregateID[i]][nextSequenceNumber[i]].events[n])) =>
                LET commit == sinkStreams[aggregateID[i]][nextSequenceNumber[i]]
                IN /\ thrown'[i]
                   /\ nextSequenceNumber'[i] = nextSequenceNumber[i]
                   /\ state'[i] = state[i] \o CallsOf(HandledPrefix(commit.events), commit.metadata)]_vars

\* A replay threw on a commit that holds an event without a handler after one with a handler.
C9_Witness ==
    \E i \in Instances :
        /\ phase[i] = "loading"
        /\ thrown[i]
        /\ state[i] # <<>>
        /\ nextSequenceNumber[i] <= Len(sinkStreams[aggregateID[i]])

\* C10: loadAggregate calls rehydrateObject of the stages strictly in list order, a
\* stage is called only after the stage before it has resolved and is given exactly
\* the value that stage resolved with (the first one the created instance); when a
\* stage fails no later stage is called and loadAggregate rejects with that failure.
C10_StagesRunInOrderAndAbortOnFailure ==
    /\ Len(stageAnswers) <= Len(rehydrateCalls)
    /\ Len(rehydrateCalls) <= Len(stageAnswers) + 1
    /\ \A j \in DOMAIN rehydrateCalls :
          /\ j <= Len(stageProviders)
          /\ rehydrateCalls[j].stage = stageProviders[j]
          /\ j = 1 => rehydrateCalls[j].given = "instance"
          /\ j > 1 => /\ stageAnswers[j - 1].outcome = "resolved"
                      /\ rehydrateCalls[j].given = stageAnswers[j - 1].value
    /\ \A j \in DOMAIN stageAnswers :
          stageAnswers[j].outcome = "failed" =>
              /\ Len(rehydrateCalls) = j
              /\ loadResult = [outcome |-> "rejected", value |-> stageAnswers[j].value]
              /\ loadPc = "rejected"
    /\ loadPc = "resolved" =>
          /\ Len(stageAnswers) = Len(stageProviders)
          /\ \A j \in DOMAIN stageAnswers : stageAnswers[j].outcome = "resolved"

\* The second of three stages failed after the first resolved with another object
\* than the one it was given.
C10_Witness ==
    /\ Len(stageProviders) = 3
    /\ Len(stageAnswers) = 2
    /\ stageAnswers[1] = [stage |-> 1, outcome |-> "resolved", value |-> "augmented"]
    /\ rehydrateCalls[2].given = "augmented"
    /\ stageAnswers[2].outcome = "failed"
    /\ loadPc = "rejected"

\* C11: when every stage has resolved and the value of the last one lacks the
\* aggregate capability (no getAggregateID function, or null/undefined), loadAggregate
\* is rejected with a LoaderOutputMalformedError and is never resolved.
C11_MalformedOutputIsReported ==
    ( /\ loadPc \in {"resolved", "rejected"}
      /\ Len(stageAnswers) = Len(stageProviders)
      /\ \A j \in DOMAIN stageAnswers : stageAnswers[j].outcome = "resolved"
      /\ pipelineValue \notin {"instance", "augmented"} )
    => loadResult = [outcome |-> "rejected", value |-> "LoaderOutputMalformedError"]

\* C16: when loadAggregate resolves, it resolves with the value the last stage
\* resolved with, which is the value the capability check was run on.
C16_ResolvesWithLastStageValue ==
    loadPc = "resolved" => loadResult = [outcome |-> "resolved", value |-> pipelineValue]

\* The events commit() must bundle: those handed to _stageEvent since the last
\* accepted commit, in staging order, each stamped with the instance's id at staging.
StagedSinceLastAccepted(i) ==
    [n \in 1..Len(stagedLog[i]) |-> [stagedLog[i][n].event EXCEPT !.aggregateID = stagedLog[i][n].id]]

\* C12: every Commit handed to the sink by commit() carries the instance's
\* nextSequenceNumber at the call as expected sequence number, the instance's
\* aggregate id, and exactly the events staged since the last accepted commit, in
\* staging order.
C12_CommitCarriesSequenceIdAndStagedEvents ==
    [][\A i \in Instances :
          CommitCall(i) =>
              LET submitted == pending'[i][Len(pending'[i])].commit
              IN /\ submitted.sequenceNumber = nextSequenceNumber[i]
                 /\ submitted.aggregateID = aggregateID[i]
                 /\ submitted.events = StagedSinceLastAccepted(i)]_vars

\* After an accepted commit (sequence number 2 reached), a later commit() has
\* submitted exactly the one event staged since, expecting sequence number 2.
C12_Witness ==
    \E i \in Instances :
        /\ pending[i] # <<>>
        /\ pending[i][1].commit.sequenceNumber = 2
        /\ Len(pending[i][1].commit.events) = 1
        /\ \E h \in DOMAIN sinkHandled :
              /\ sinkHandled[h].inst = i
              /\ sinkHandled[h].result = "accepted"
              /\ Len(sinkHandled[h].commit.events) = 1

\* The events of the first n commits of a stream, in order.
RECURSIVE CommittedEvents(_, _)
CommittedEvents(stream, n) ==
    IF n = 0 THEN <<>> ELSE CommittedEvents(stream, n - 1) \o stream[n].events

\* The events whose handler calls make up an observable state.
EventsOf(calls) == [n \in 1..Len(calls) |-> calls[n].event]

\* C13: every snapshot saveSnapshot() hands to the snapshotter has sequenceNumber =
\* nextSequenceNumber - 1 at the call, and its captured state is the fold over the
\* events of the first sequenceNumber commits of the aggregate, also when the
\* instance holds staged events that are not committed.
C13_SnapshotReflectsCommittedStateOnly ==
    [][\A i \in SnapshotCapable :
          SaveSnapshot(i) =>
              LET handed == saveAnswers'[Len(saveAnswers')].snapshot
              IN /\ handed.sequenceNumber = nextSequenceNumber[i] - 1
                 /\ handed.sequenceNumber <= Len(sinkStreams[aggregateID[i]])
                 /\ EventsOf(handed.state) =
                        CommittedEvents(sinkStreams[aggregateID[i]], handed.sequenceNumber)]_vars

\* C14: saveSnapshot() on an instance whose type leaves _getSnapshotData
\* unimplemented returns a rejected result, makes no snapshotter.saveSnapshot call,
\* and leaves the state, the staged buffer and nextSequenceNumber unchanged.
C14_UnsupportedSnapshotRejectsWithoutWrite ==
    [][\A i \in Instances \ SnapshotCapable :
          SaveSnapshot(i) =>
              /\ snapshotReturned'[i] = "rejected: not saving"
              /\ saveAnswers' = saveAnswers
              /\ snapshots' = snapshots
              /\ immediates' = immediates
              /\ state'[i] = state[i]
              /\ stagedEvents'[i] = stagedEvents[i]
              /\ nextSequenceNumber'[i] = nextSequenceNumber[i]]_vars

\* An instance of a type without _getSnapshotData, holding a staged event after an
\* accepted commit, has had saveSnapshot() rejected.
C14_Witness ==
    \E i \in Instances \ SnapshotCapable :
        /\ snapshotReturned[i] = "rejected: not saving"
        /\ stagedEvents[i] # <<>>
        /\ nextSequenceNumber[i] = 2
        /\ saveAnswers = <<>>

\* The saveSnapshot calls so far whose argument was a well-formed snapshot of id.
WellFormedSaves(id) ==
    {n \in DOMAIN saveAnswers :
        IsAggregateSnapshot(saveAnswers[n].snapshot) /\ saveAnswers[n].snapshot.aggregateID = id}

\* C20: on the in-memory snapshotter, loadSnapshot(id) resolves with the snapshot
\* most recently passed to a saveSnapshot call for that id with a well-formed
\* argument and rejects when there is none; a saveSnapshot call with a malformed
\* argument is rejected and leaves every stored snapshot unchanged.
C20_LoadReturnsLastWellFormedSave ==
    [][/\ \A s \in SnapshotInputs :
            (SnapshotterSaveCall(s) /\ ~IsAggregateSnapshot(s)) =>
                /\ saveAnswers'[Len(saveAnswers')].answer = "rejected"
                /\ snapshots' = snapshots
       /\ (RunImmediate /\ Head(immediates).kind = "load") =>
            LET call == Head(immediates).call
                saves == WellFormedSaves(loadAnswers[call].aggregateID)
            IN IF saves = {}
               THEN loadAnswers'[call].outcome = "rejected"
               ELSE LET last == CHOOSE n \in saves : \A m \in saves : m <= n
                    IN /\ loadAnswers'[call].outcome = "resolved"
                       /\ loadAnswers'[call].value = saveAnswers[last].snapshot]_vars

\* A load has resolved with the second of two snapshots saved under its id.
C20_Witness ==
    \E n \in DOMAIN loadAnswers :
        /\ loadAnswers[n].outcome = "resolved"
        /\ Len(saveAnswers) = 2
        /\ saveAnswers[1].snapshot # saveAnswers[2].snapshot
        /\ WellFormedSaves(loadAnswers[n].aggregateID) = {1, 2}
        /\ loadAnswers[n].value = saveAnswers[2].snapshot

\* The events instance i staged and applied (its handler calls made without commit
\* metadata, which only _stageEvent makes).
StagedAndApplied(i) ==
    {state[i][n].event : n \in {m \in DOMAIN state[i] : state[i][m].commitMetadata = "undefined"}}

\* The events of the commits of instance i that the sink accepted.
AcceptedEvents(i) ==
    UNION {{sinkHandled[h].commit.events[n] : n \in DOMAIN sinkHandled[h].commit.events} :
              h \in {g \in DOMAIN sinkHandled :
                        sinkHandled[g].inst = i /\ sinkHandled[g].result = "accepted"}}

\* C17: no staged event is ever dropped: in every reachable state, also when an
\* event is staged between a commit() call and the delivery of its acceptance, each
\* event an instance staged and applied is in an accepted commit or in the staged buffer.
C17_NoStagedEventDropped ==
    \A i \in Instances :
        StagedAndApplied(i) \subseteq
            AcceptedEvents(i) \cup {stagedEvents[i][n] : n \in DOMAIN stagedEvents[i]}

\* C18: against the optimistic-concurrency sink, an instance's nextSequenceNumber is
\* at least 1, never decreases, and never exceeds the sink's recorded next sequence
\* number for the aggregate id, also when commit() is called again while an earlier
\* commit() of the instance is pending.
C18_SequenceNumberBoundedBySink ==
    /\ [](\A i \in Instances :
            /\ nextSequenceNumber[i] >= 1
            /\ nextSequenceNumber[i] <= Len(sinkStreams[aggregateID[i]]) + 1)
    /\ [][\A i \in Instances : nextSequenceNumber'[i] >= nextSequenceNumber[i]]_vars

\* Two commit() calls of one instance overlapped (both made at sequence number 1);
\* one was accepted and acknowledged, the other answered with a conflict.
C18_Witness ==
    \E i \in Instances, a, c \in DOMAIN sinkHandled :
        /\ sinkHandled[a].inst = i /\ sinkHandled[c].inst = i
        /\ sinkHandled[a].result = "accepted" /\ sinkHandled[c].result = "conflict"
        /\ sinkHandled[a].seqAtCall = 1 /\ sinkHandled[c].seqAtCall = 1
        /\ nextSequenceNumber[i] = 2

\* C19: every event of a commit handed to the sink carries the commit's aggregate
\* id as its aggregateID, provided the instance's aggregate id was not changed between
\* the staging of the event and commit(): staging stamps the instance's id on the event.
C19_EventsCarryCommitAggregateID ==
    [][\A i \in Instances :
          ( /\ CommitCall(i)
            /\ \A n \in DOMAIN stagedLog[i] : stagedLog[i][n].id = aggregateID[i] ) =>
              LET submitted == pending'[i][Len(pending'[i])].commit
              IN \A n \in DOMAIN submitted.events :
                    submitted.events[n].aggregateID = submitted.aggregateID]_vars

\* An instance whose id was set to another aggregate's before staging has submitted
\* a commit of two events, all stamped with that id.
C19_Witness ==
    \E i \in Instances :
        /\ pending[i] # <<>>
        /\ pending[i][1].commit.aggregateID = OtherAggregateID
        /\ Len(pending[i][1].commit.events) = 2
        /\ \A n \in 1..2 : pending[i][1].commit.events[n].aggregateID = OtherAggregateID
====
